---- MODULE Spec2Model ----
(***************************************************************************)
(* Model of yaml_to_html.py: main() checks the input file, loads the YAML  *)
(* document, assembles the page with generate_html and writes it.          *)
(*                                                                         *)
(* Text is a sequence of one-character strings.  Fixed markup emitted by   *)
(* the renderers and the static stretches of the page template are single  *)
(* multi-character elements (they contain no underscore, so no placeholder *)
(* can start or end inside them).                                          *)
(*                                                                         *)
(* A Python scalar is a record [t, s, n, b]: t is its type ("str", "int",  *)
(* "bool", "none") or "absent" for a key missing from the mapping.  A      *)
(* container (list or mapping) is a record [t, items]; t = "scalar" is a   *)
(* non-zero number standing where a list or mapping is expected.  A slot   *)
(* or lecture is a record with t = "map", or t = "none" for a null entry.  *)
(* Mapping keys are text, as in the schedule documents the program reads.  *)
(***************************************************************************)
EXTENDS Integers, Sequences, FiniteSets, TLC

VARIABLES pc, inFile, doc, present, name, semester, days_html_parts, page,
          outFile, stdout, stderr, exitCode

vars == <<pc, inFile, doc, present, name, semester, days_html_parts, page,
          outFile, stdout, stderr, exitCode>>

-----------------------------------------------------------------------------
(* Bounds of the input space *)

MaxDays == 3
MaxTime == 2
MaxAtt == 2
MaxLectures == 2

-----------------------------------------------------------------------------
(* Python values *)

Absent == [t |-> "absent", s |-> <<>>, n |-> 0, b |-> FALSE]
None == [t |-> "none", s |-> <<>>, n |-> 0, b |-> FALSE]
StrV(x) == [t |-> "str", s |-> x, n |-> 0, b |-> FALSE]
IntV(x) == [t |-> "int", s |-> <<>>, n |-> x, b |-> FALSE]
BoolV(x) == [t |-> "bool", s |-> <<>>, n |-> 0, b |-> x]

AbsentC == [t |-> "absent", items |-> <<>>]
NoneC == [t |-> "none", items |-> <<>>]
ListC(x) == [t |-> "list", items |-> x]
ScalarC == [t |-> "scalar", items |-> <<>>]

\* dict.get(key, default): the default only when the key is missing
Get(v, default) == IF v.t = "absent" THEN default ELSE v

\* bool(v)
Truthy(v) ==
  CASE v.t = "str" -> v.s # <<>>
    [] v.t = "int" -> v.n # 0
    [] v.t = "bool" -> v.b
    [] OTHER -> FALSE

\* bool(c) of a list or mapping
TruthyC(c) == c.t = "scalar" \/ (c.t = "list" /\ c.items # <<>>)

\* "x or []" / "x or {}"
OrEmpty(c) == IF TruthyC(c) THEN c ELSE ListC(<<>>)

DigitChars == <<"0", "1", "2", "3", "4", "5", "6", "7", "8", "9">>

RECURSIVE Digits(_)
Digits(n) ==
  IF n < 10 THEN <<DigitChars[n + 1]>>
  ELSE Digits(n \div 10) \o <<DigitChars[(n % 10) + 1]>>

\* str(v)
Str(v) ==
  CASE v.t = "str" -> v.s
    [] v.t = "int" -> Digits(v.n)
    [] v.t = "bool" -> IF v.b THEN <<"T", "r", "u", "e">>
                       ELSE <<"F", "a", "l", "s", "e">>
    [] OTHER -> <<"N", "o", "n", "e">>

-----------------------------------------------------------------------------
(* str methods *)

MatchAt(s, old, i) ==
  /\ i + Len(old) - 1 <= Len(s)
  /\ \A k \in 1..Len(old) : s[i + k - 1] = old[k]

RECURSIVE ReplaceFrom(_, _, _, _)
ReplaceFrom(s, old, new, i) ==
  IF i > Len(s) THEN <<>>
  ELSE IF MatchAt(s, old, i) THEN new \o ReplaceFrom(s, old, new, i + Len(old))
  ELSE <<s[i]>> \o ReplaceFrom(s, old, new, i + 1)

\* s.replace(old, new): every non-overlapping occurrence, left to right
Replace(s, old, new) == ReplaceFrom(s, old, new, 1)

RECURSIVE Join(_, _)
\* sep.join(parts)
Join(sep, parts) ==
  IF parts = <<>> THEN <<>>
  ELSE IF Len(parts) = 1 THEN parts[1]
  ELSE parts[1] \o sep \o Join(sep, Tail(parts))

Lowers == <<"a", "b", "c", "d", "e", "f", "g", "h", "i", "j", "k", "l", "m",
            "n", "o", "p", "q", "r", "s", "t", "u", "v", "w", "x", "y", "z">>
Uppers == <<"A", "B", "C", "D", "E", "F", "G", "H", "I", "J", "K", "L", "M",
            "N", "O", "P", "Q", "R", "S", "T", "U", "V", "W", "X", "Y", "Z">>

upper(c) ==
  IF \E i \in 1..Len(Lowers) : Lowers[i] = c
  THEN Uppers[CHOOSE i \in 1..Len(Lowers) : Lowers[i] = c]
  ELSE c

lower(c) ==
  IF \E i \in 1..Len(Uppers) : Uppers[i] = c
  THEN Lowers[CHOOSE i \in 1..Len(Uppers) : Uppers[i] = c]
  ELSE c

\* first character uppercased, the rest unchanged
capitalize_keep_rest(s) ==
  IF s = <<>> THEN <<>> ELSE <<upper(s[1])>> \o Tail(s)

\* s.capitalize(): first character uppercased, the rest lowercased
capitalize(s) ==
  IF s = <<>> THEN <<>>
  ELSE <<upper(s[1])>> \o [i \in 1..(Len(s) - 1) |-> lower(s[i + 1])]

-----------------------------------------------------------------------------
(* html.escape and _escape *)

Amp == <<"&", "a", "m", "p", ";">>
Lt == <<"&", "l", "t", ";">>
Gt == <<"&", "g", "t", ";">>
Quot == <<"&", "q", "u", "o", "t", ";">>
Apos == <<"&", "#", "x", "2", "7", ";">>

\* html.escape(s, quote=True): & first, then <, >, " and '
html_escape(s) ==
  Replace(Replace(Replace(Replace(Replace(s,
    <<"&">>, Amp), <<"<">>, Lt), <<">">>, Gt), <<"\"">>, Quot), <<"'">>, Apos)

\* _escape applied twice
escape_twice(s) ==
  html_escape(html_escape(IF s.t = "none" THEN <<>> ELSE Str(s)))

escape(s) == html_escape(IF s.t = "none" THEN <<>> ELSE Str(s))

-----------------------------------------------------------------------------
(* Markup emitted by the renderers *)

\* the character U+2014, one element of text
EmDash == "U+2014"
PillOpen == "<span class=\"att-pill\">"
PillClose == "</span>"
LectureOpen == "<div class=\"lecture\">"
TitleOpen == "  <div class=\"title\">"
AttendeesOpen == "  <div class=\"attendees\">"
SlotOpen == "<div class=\"slot\">"
TimeOpen == "  <div class=\"time\">"
LecturesOpen == "  <div class=\"lectures\">"
DivClose == "</div>"
SectionOpen == "<section class=\"day-section\">"
DayNameOpen == "  <header class=\"day-header\"><div class=\"day-name\">"
DayNameClose == "</div></header>"
DayRowOpen == "  <div class=\"day-row\">"
SectionClose == "</section>"

render_attendees(attendees) ==
  IF ~TruthyC(attendees) THEN <<EmDash>>
  ELSE Join(<<" ">>,
            [i \in 1..Len(attendees.items) |->
               <<PillOpen>> \o escape(attendees.items[i]) \o <<PillClose>>])

render_lecture(lec) ==
  LET title == escape(Get(lec.lecture, StrV(<<>>)))
      attendees_html == render_attendees(Get(lec.attendees, ListC(<<>>)))
  IN  <<LectureOpen, TitleOpen>> \o title \o <<DivClose, AttendeesOpen>>
        \o attendees_html \o <<DivClose, DivClose>>

\* lec.get on a null lecture, or the loop over attendees that is a number
raises_lecture(lec) ==
  \/ lec.t # "map"
  \/ Get(lec.attendees, ListC(<<>>)).t = "scalar"

\* start, end of render_slot
slot_time(slot) ==
  LET time == Get(slot.time, ListC(<<>>))
  IN  IF time.t # "list" \/ Len(time.items) < 2
      THEN [start |-> IF TruthyC(time) THEN time.items[1] ELSE StrV(<<>>),
            end |-> StrV(<<>>)]
      ELSE [start |-> time.items[1], end |-> time.items[2]]

\* raises_slot when indexing a null time is an error as well
raises_slot_strict(slot) ==
  \/ slot.t # "map"
  \/ Get(slot.time, ListC(<<>>)).t \in {"scalar", "none"}
  \/ Get(slot.lectures, ListC(<<>>)).t = "scalar"
  \/ LET lectures == OrEmpty(Get(slot.lectures, ListC(<<>>))).items
     IN  \E i \in 1..Len(lectures) : raises_lecture(lectures[i])

\* slot.get on a null slot, time[0] of a number, the loop over lectures that
\* is a number, or a lecture that raises
raises_slot(slot) ==
  \/ slot.t # "map"
  \/ Get(slot.time, ListC(<<>>)).t = "scalar"
  \/ Get(slot.lectures, ListC(<<>>)).t = "scalar"
  \/ LET lectures == OrEmpty(Get(slot.lectures, ListC(<<>>))).items
     IN  \E i \in 1..Len(lectures) : raises_lecture(lectures[i])

render_slot(slot) ==
  LET se == slot_time(slot)
      time_str == IF Truthy(se.start) \/ Truthy(se.end)
                  THEN escape(se.start) \o <<" ", EmDash, " ">> \o escape(se.end)
                  ELSE <<EmDash>>
      lectures == OrEmpty(Get(slot.lectures, ListC(<<>>))).items
      lectures_html == Join(<<"\n">>,
                            [i \in 1..Len(lectures) |-> render_lecture(lectures[i])])
  IN  <<SlotOpen, TimeOpen>> \o time_str \o <<DivClose, LecturesOpen>>
        \o lectures_html \o <<DivClose, DivClose>>

-----------------------------------------------------------------------------
(* generate_html *)

monday == <<"m", "o", "n", "d", "a", "y">>
tuesday == <<"t", "u", "e", "s", "d", "a", "y">>
wednesday == <<"w", "e", "d", "n", "e", "s", "d", "a", "y">>
thursday == <<"t", "h", "u", "r", "s", "d", "a", "y">>
friday == <<"f", "r", "i", "d", "a", "y">>
saturday == <<"s", "a", "t", "u", "r", "d", "a", "y">>
sunday == <<"s", "u", "n", "d", "a", "y">>

day_order == <<monday, tuesday, wednesday, thursday, friday, saturday, sunday>>

\* week.keys(), in insertion order
Keys(week) == [i \in 1..Len(week.items) |-> week.items[i].key]

\* "d in week"
HasKey(week, d) == \E i \in 1..Len(week.items) : week.items[i].key = d

\* week.get(day, [])
Lookup(week, d) ==
  IF HasKey(week, d)
  THEN week.items[CHOOSE i \in 1..Len(week.items) : week.items[i].key = d].slots
  ELSE ListC(<<>>)

\* doc.get("week", {}) or {}
week_of(d) == OrEmpty(Get(d.week, ListC(<<>>)))

\* the day keys in source order only
present_source_order(week) == Keys(week)

\* the two loops that build "present"
present_of(week) ==
  LET canonical == SelectSeq(day_order, LAMBDA d : HasKey(week, d))
      seen == {canonical[i] : i \in 1..Len(canonical)}
  IN  canonical \o SelectSeq(Keys(week), LAMBDA d : d \notin seen)

render_day(week, day) ==
  LET slots == OrEmpty(Lookup(week, day)).items
      slots_html == Join(<<"\n">>, [i \in 1..Len(slots) |-> render_slot(slots[i])])
      day_name == escape(StrV(capitalize(day)))
  IN  <<SectionOpen, DayNameOpen>> \o day_name \o <<DayNameClose, DayRowOpen>>
        \o slots_html \o <<DivClose, SectionClose>>

\* the loop that builds days_html_parts: days without slots are skipped
days_html_parts_of(week) ==
  LET shown == SelectSeq(present_of(week),
                         LAMBDA day : TruthyC(Lookup(week, day)))
  IN  [i \in 1..Len(shown) |-> render_day(week, shown[i])]

P_NAME == <<"_", "_", "N", "A", "M", "E", "_", "_">>
P_SEM == <<"_", "_", "S", "E", "M", "_", "_">>
P_DAYS == <<"_", "_", "D", "A", "Y", "S", "_", "_", "H", "T", "M", "L", "_", "_">>

\* static stretches of the page template
TplHead == "<!doctype html>...<title>"
TplParenOpen == " ("
TplTitleEnd == ")</title>...<style>...</style></head><body><header>  <h1>"
TplMeta == "</h1>  <div class=\"meta\">Semester: "
TplMain == "</div></header><main>"
TplFoot == "</main><footer>...</footer><script>...</script></body></html>"

template ==
  <<TplHead>> \o P_NAME \o <<TplParenOpen>> \o P_SEM \o <<TplTitleEnd>>
    \o P_NAME \o <<TplMeta>> \o P_SEM \o <<TplMain, "\n">>
    \o P_DAYS \o <<"\n", TplFoot, "\n">>

Schedule == <<"S", "c", "h", "e", "d", "u", "l", "e">>

name_of(d) == escape(Get(d.name, StrV(Schedule)))

semester_of(d) == escape(Get(d.semester, StrV(<<>>)))

\* the three chained replace calls of the return statement
substitute(n, s, days_html) ==
  Replace(Replace(Replace(template, P_NAME, n), P_SEM, s), P_DAYS, days_html)

generate_html(d) ==
  substitute(name_of(d), semester_of(d),
             Join(<<"\n">>, days_html_parts_of(week_of(d))))

\* doc.get on a document that is not a mapping, "d in week" on a number,
\* the loop over slots that is a number, or a slot that raises
raises_generate_html(d) ==
  \/ d.kind # "map"
  \/ week_of(d).t = "scalar"
  \/ LET week == week_of(d)
         days == present_of(week)
     IN  \E i \in 1..Len(days) :
           \/ Lookup(week, days[i]).t = "scalar"
           \/ LET slots == OrEmpty(Lookup(week, days[i])).items
              IN  \E j \in 1..Len(slots) : raises_slot(slots[j])

-----------------------------------------------------------------------------
(* The documents the runs are explored on *)

SeqsUpTo(S, n) == UNION {[1..k -> S] : k \in 0..n}

Doc(n, s, w) == [kind |-> "map", name |-> n, semester |-> s, week |-> w]

\* yaml.safe_load(f) or {} of an empty file
EmptyDoc == Doc(Absent, Absent, AbsentC)

\* a document whose top level is a scalar, not a mapping
ScalarDoc == [kind |-> "scalar", name |-> Absent, semester |-> Absent,
              week |-> AbsentC]

Lecture(title, att) == [t |-> "map", lecture |-> title, attendees |-> att]
Slot(time, lectures) == [t |-> "map", time |-> time, lectures |-> lectures]
NoneLecture == [t |-> "none", lecture |-> Absent, attendees |-> AbsentC]
NoneSlot == [t |-> "none", time |-> AbsentC, lectures |-> AbsentC]
Day(key, slots) == [key |-> key, slots |-> slots]

CS == StrV(<<"C", "S">>)
Fall == StrV(<<"F", "a", "l", "l">>)
Intro == StrV(<<"I", "n", "t", "r", "o">>)
Al == StrV(<<"A", "l">>)
T09 == StrV(<<"0", "9">>)
T10 == StrV(<<"1", "0">>)

IntroLecture == Lecture(Intro, ListC(<<Al>>))
PlainSlot == Slot(ListC(<<T09, T10>>), ListC(<<IntroLecture>>))
PlainWeek == ListC(<<Day(monday, ListC(<<PlainSlot>>))>>)

OneSlotWeek(slot) == ListC(<<Day(monday, ListC(<<slot>>))>>)

NameVals ==
  {Absent, None, StrV(<<>>), CS, IntV(0),
   StrV(<<"a", "&", "b">>), StrV(<<"<", "b", ">">>), StrV(<<"\"", "'">>),
   StrV(Amp), StrV(P_NAME), StrV(P_SEM), StrV(P_DAYS)}

SemVals ==
  {Absent, None, StrV(<<>>), Fall, StrV(<<"<", "&", ">">>),
   StrV(P_NAME), StrV(P_DAYS)}

DocsText ==
  {Doc(n, s, w) : n \in NameVals, s \in SemVals,
                  w \in {AbsentC, NoneC, ListC(<<>>), PlainWeek}}

labDay == <<"l", "a", "b", "D", "a", "y">>
KeyPool == {sunday, monday, labDay, <<"a", "<", "b">>}

SlotLists == {NoneC, ListC(<<>>), ListC(<<PlainSlot>>)}

Weeks ==
  {ListC([i \in 1..Len(ks) |-> Day(ks[i], sl[i])]) :
     <<ks, sl>> \in
       UNION {{ks \in [1..k -> KeyPool] :
                 \A i, j \in 1..k : i # j => ks[i] # ks[j]}
              \X [1..k -> SlotLists] : k \in 0..MaxDays}}

DocsDays == {Doc(CS, Fall, w) : w \in Weeks}

TimeElems ==
  {None, StrV(<<>>), T09, IntV(0), IntV(9), BoolV(FALSE), StrV(<<"<">>)}

TimeVals == {AbsentC, NoneC} \cup {ListC(t) : t \in SeqsUpTo(TimeElems, MaxTime)}

DocsSlots ==
  {Doc(CS, Fall, OneSlotWeek(Slot(t, l))) :
     t \in TimeVals,
     l \in {AbsentC, NoneC, ListC(<<IntroLecture, Lecture(Absent, AbsentC)>>)}}

TitleVals == {Absent, None, Intro, StrV(<<"<", "i", ">">>)}
AttElems == {None, Al, StrV(<<"a", "&", "b">>), IntV(7)}
AttVals == {AbsentC, NoneC} \cup {ListC(a) : a \in SeqsUpTo(AttElems, MaxAtt)}

\* one lecture, every title with every attendee list
DocsAttendees ==
  {Doc(CS, Fall, OneSlotWeek(Slot(ListC(<<T09, T10>>), ListC(<<Lecture(t, a)>>)))) :
     t \in TitleVals, a \in AttVals}

LecturePool ==
  {IntroLecture, Lecture(Absent, AbsentC), Lecture(None, NoneC),
   Lecture(StrV(<<"<", "i", ">">>), ListC(<<StrV(<<"a", "&", "b">>), None>>))}

\* one slot, every list of lectures
DocsLectures ==
  {Doc(CS, Fall, OneSlotWeek(Slot(ListC(<<T09, T10>>), ListC(l)))) :
     l \in SeqsUpTo(LecturePool, MaxLectures)}

\* documents with a null or a number where a mapping or list is expected
DocsBroken ==
  {ScalarDoc, Doc(CS, Fall, ScalarC),
   Doc(CS, Fall, ListC(<<Day(monday, ScalarC)>>)),
   Doc(CS, Fall, OneSlotWeek(NoneSlot)),
   Doc(CS, Fall, OneSlotWeek(Slot(ScalarC, AbsentC))),
   Doc(CS, Fall, OneSlotWeek(Slot(AbsentC, ScalarC))),
   Doc(CS, Fall, OneSlotWeek(Slot(AbsentC, ListC(<<NoneLecture>>)))),
   Doc(CS, Fall, OneSlotWeek(Slot(AbsentC, ListC(<<Lecture(Intro, ScalarC)>>))))}

Docs ==
  DocsText \cup DocsDays \cup DocsSlots \cup DocsAttendees \cup DocsLectures
    \cup DocsBroken

\* the input file: missing, not parseable, empty, or a parsed document
Inputs ==
  {[st |-> "missing", doc |-> EmptyDoc], [st |-> "malformed", doc |-> EmptyDoc],
   [st |-> "empty", doc |-> EmptyDoc]}
    \cup {[st |-> "ok", doc |-> d] : d \in Docs}

-----------------------------------------------------------------------------
(* main *)

IN_FILE == "terrible.yaml"
OUT_FILE == "index.html"

\* the output file left by an earlier run
OldFile == [exists |-> TRUE, data |-> <<"previous contents">>]

Init ==
  /\ pc = "exists"
  /\ inFile \in Inputs
  /\ doc = EmptyDoc
  /\ present = <<>>
  /\ name = <<>>
  /\ semester = <<>>
  /\ days_html_parts = <<>>
  /\ page = <<>>
  /\ outFile = OldFile
  /\ stdout = <<>>
  /\ stderr = <<>>
  /\ exitCode = -1

locals == <<present, name, semester, days_html_parts, page>>

\* main without the exit on a missing input file
MissingInput_proceeds ==
  /\ pc = "exists"
  /\ inFile.st = "missing"
  /\ pc' = "load"
  /\ UNCHANGED <<inFile, doc, locals, outFile, stdout, stderr, exitCode>>

\* if not IN_FILE.exists(): raise SystemExit(message)
MissingInput ==
  /\ pc = "exists"
  /\ inFile.st = "missing"
  /\ stderr' = <<"Input file not found: ", IN_FILE>>
  /\ exitCode' = 1
  /\ pc' = "exit"
  /\ UNCHANGED <<inFile, doc, locals, outFile, stdout>>

InputExists ==
  /\ pc = "exists"
  /\ inFile.st # "missing"
  /\ pc' = "load"
  /\ UNCHANGED <<inFile, doc, locals, outFile, stdout, stderr, exitCode>>

\* load_yaml: yaml.safe_load(f) or {}
LoadOk ==
  /\ pc = "load"
  /\ inFile.st \in {"empty", "ok"}
  /\ doc' = inFile.doc
  /\ pc' = "assemble"
  /\ UNCHANGED <<inFile, locals, outFile, stdout, stderr, exitCode>>

\* yaml.safe_load raises: the exception ends the run
LoadFail ==
  /\ pc = "load"
  /\ inFile.st = "malformed"
  /\ stderr' = <<"yaml.YAMLError">>
  /\ exitCode' = 1
  /\ pc' = "exit"
  /\ UNCHANGED <<inFile, doc, locals, outFile, stdout>>

\* generate_html(doc), the argument of write_text
AssembleOk ==
  /\ pc = "assemble"
  /\ ~raises_generate_html(doc)
  /\ present' = present_of(week_of(doc))
  /\ name' = name_of(doc)
  /\ semester' = semester_of(doc)
  /\ days_html_parts' = days_html_parts_of(week_of(doc))
  /\ page' = generate_html(doc)
  /\ pc' = "write"
  /\ UNCHANGED <<inFile, doc, outFile, stdout, stderr, exitCode>>

\* the output file opened for writing before the page is assembled
AssembleFail_truncates ==
  /\ pc = "assemble"
  /\ raises_generate_html(doc)
  /\ outFile' = [exists |-> TRUE, data |-> <<>>]
  /\ stderr' = <<"AttributeError or TypeError">>
  /\ exitCode' = 1
  /\ pc' = "exit"
  /\ UNCHANGED <<inFile, doc, locals, stdout>>

\* generate_html raises: the exception ends the run before write_text is called
AssembleFail ==
  /\ pc = "assemble"
  /\ raises_generate_html(doc)
  /\ stderr' = <<"AttributeError or TypeError">>
  /\ exitCode' = 1
  /\ pc' = "exit"
  /\ UNCHANGED <<inFile, doc, locals, outFile, stdout>>

\* OUT_FILE.write_text(...)
WriteOk ==
  /\ pc = "write"
  /\ outFile' = [exists |-> TRUE, data |-> page]
  /\ pc' = "print"
  /\ UNCHANGED <<inFile, doc, locals, stdout, stderr, exitCode>>

\* write_text raises OSError: before the file is opened, or after it was
\* truncated
WriteFail ==
  /\ pc = "write"
  /\ outFile' \in {outFile, [exists |-> TRUE, data |-> <<>>]}
  /\ stderr' = <<"OSError">>
  /\ exitCode' = 1
  /\ pc' = "exit"
  /\ UNCHANGED <<inFile, doc, locals, stdout>>

\* print(f"Wrote {OUT_FILE.resolve()}")
PrintConfirmation ==
  /\ pc = "print"
  /\ stdout' = Append(stdout, <<"Wrote ", OUT_FILE>>)
  /\ exitCode' = 0
  /\ pc' = "exit"
  /\ UNCHANGED <<inFile, doc, locals, outFile, stderr>>

Next ==
  \/ MissingInput
  \/ InputExists
  \/ LoadOk
  \/ LoadFail
  \/ AssembleOk
  \/ AssembleFail
  \/ WriteOk
  \/ WriteFail
  \/ PrintConfirmation

Spec == Init /\ [][Next]_vars

-----------------------------------------------------------------------------
(* Reading the assembled page *)

Atoms ==
  {PillOpen, PillClose, LectureOpen, TitleOpen, AttendeesOpen, SlotOpen,
   TimeOpen, LecturesOpen, DivClose, SectionOpen, DayNameOpen, DayNameClose,
   DayRowOpen, SectionClose, TplHead, TplParenOpen, TplTitleEnd, TplMeta,
   TplMain, TplFoot}

Range(f) == {f[i] : i \in DOMAIN f}

\* the text from position i up to the next piece of markup
Run(p, i) ==
  LET stops == {j \in i..(Len(p) + 1) : j = Len(p) + 1 \/ p[j] \in Atoms}
      stop == CHOOSE j \in stops : \A k \in stops : j <= k
  IN  SubSeq(p, i, stop - 1)

Positions(p, atom) ==
  SelectSeq([i \in 1..Len(p) |-> i], LAMBDA i : p[i] = atom)

\* the texts that follow each occurrence of atom, in page order
SegsAfter(p, atom) ==
  LET pos == Positions(p, atom)
  IN  [k \in 1..Len(pos) |-> Run(p, pos[k] + 1)]

\* the elements that follow each occurrence of atom, in page order
NextAfter(p, atom) ==
  LET pos == Positions(p, atom)
  IN  [k \in 1..Len(pos) |-> p[pos[k] + 1]]

RECURSIVE UnescapeFrom(_, _)
UnescapeFrom(s, i) ==
  IF i > Len(s) THEN <<>>
  ELSE IF MatchAt(s, Amp, i) THEN <<"&">> \o UnescapeFrom(s, i + Len(Amp))
  ELSE IF MatchAt(s, Lt, i) THEN <<"<">> \o UnescapeFrom(s, i + Len(Lt))
  ELSE IF MatchAt(s, Gt, i) THEN <<">">> \o UnescapeFrom(s, i + Len(Gt))
  ELSE IF MatchAt(s, Quot, i) THEN <<"\"">> \o UnescapeFrom(s, i + Len(Quot))
  ELSE IF MatchAt(s, Apos, i) THEN <<"'">> \o UnescapeFrom(s, i + Len(Apos))
  ELSE <<s[i]>> \o UnescapeFrom(s, i + 1)

\* what a browser displays for escaped text
Unescape(s) == UnescapeFrom(s, 1)

\* no raw <, >, " or ', and every & starts a character reference
WellEscaped(s) ==
  \A i \in 1..Len(s) :
    /\ s[i] \notin {"<", ">", "\"", "'"}
    /\ s[i] = "&" => \E e \in {Amp, Lt, Gt, Quot, Apos} : MatchAt(s, e, i)

RECURSIVE Flatten(_)
Flatten(ss) == IF ss = <<>> THEN <<>> ELSE Head(ss) \o Flatten(Tail(ss))

\* the text of a value: nothing for a missing or null one
Text(v) == IF v.t \in {"absent", "none"} THEN <<>> ELSE Str(v)

Assembled == page # <<>>

DaysHtml == Join(<<"\n">>, days_html_parts)

ItemsOf(c) == IF c.t = "list" THEN c.items ELSE <<>>

\* the days of the document, in source order
DocDays == IF doc.kind = "map" THEN ItemsOf(doc.week) ELSE <<>>

DocKeys == [i \in 1..Len(DocDays) |-> DocDays[i].key]

\* the keys that come with a non-empty slot list
ShownKeys ==
  {DocDays[i].key : i \in {j \in 1..Len(DocDays) : ItemsOf(DocDays[j].slots) # <<>>}}

SlotsOfKey(k) ==
  ItemsOf(DocDays[CHOOSE i \in 1..Len(DocDays) : DocDays[i].key = k].slots)

\* the slots, lectures and attendees of the shown days, in the order of "present"
ShownSeq == SelectSeq(present, LAMBDA k : k \in ShownKeys)
ShownSlots == Flatten([i \in 1..Len(ShownSeq) |-> SlotsOfKey(ShownSeq[i])])
ShownLectures ==
  Flatten([i \in 1..Len(ShownSlots) |-> ItemsOf(ShownSlots[i].lectures)])
ShownAttendees ==
  Flatten([i \in 1..Len(ShownLectures) |-> ItemsOf(ShownLectures[i].attendees)])

IsCanonical(k) == k \in Range(day_order)
CanonicalIndex(k) == CHOOSE i \in 1..Len(day_order) : day_order[i] = k
SourceIndex(k) == CHOOSE i \in 1..Len(DocKeys) : DocKeys[i] = k

-----------------------------------------------------------------------------
(* Claims *)

\* C1: the day keys generate_html iterates over are a permutation of the
\* keys of week: the canonical keys first, in weekday order, then the other
\* keys in source order; no keys give an empty sequence.
C1_DayOrder ==
  Assembled =>
    /\ Len(present) = Len(DocKeys)
    /\ \A k \in Range(DocKeys) :
         Cardinality({i \in 1..Len(present) : present[i] = k}) = 1
    /\ \A i, j \in 1..Len(present) :
         i < j =>
           IF IsCanonical(present[i])
           THEN IsCanonical(present[j]) =>
                  CanonicalIndex(present[i]) < CanonicalIndex(present[j])
           ELSE /\ ~IsCanonical(present[j])
                /\ SourceIndex(present[i]) < SourceIndex(present[j])
    /\ DocKeys = <<>> => present = <<>>

C1_Witness ==
  /\ Assembled
  /\ DocKeys = <<labDay, sunday, monday>>
  /\ present = <<monday, sunday, labDay>>

\* C2: the page is the template with the three placeholders replaced at
\* once by the escaped name, the escaped semester and the day sections; no
\* substituted value is touched by a later substitution.
C2_SimultaneousSubstitution ==
  Assembled =>
    page = <<TplHead>> \o name \o <<TplParenOpen>> \o semester
             \o <<TplTitleEnd>> \o name \o <<TplMeta>> \o semester
             \o <<TplMain, "\n">> \o DaysHtml \o <<"\n", TplFoot, "\n">>

\* C3: the heading is the escaped name, or "Schedule" when name is missing,
\* null or the empty string; the subtitle is the escaped semester, empty
\* when semester is missing.
C3_NameDefault ==
  Assembled =>
    /\ name = IF Text(doc.name) = <<>> THEN Schedule
              ELSE html_escape(Text(doc.name))
    /\ semester = html_escape(Text(doc.semester))

\* start and end as the claim C4 takes them from time
ClaimStart(slot) ==
  IF ItemsOf(slot.time) # <<>> THEN ItemsOf(slot.time)[1] ELSE StrV(<<>>)
ClaimEnd(slot) ==
  IF Len(ItemsOf(slot.time)) >= 2 THEN ItemsOf(slot.time)[2] ELSE StrV(<<>>)

\* C4: a slot shows the em-dash exactly when start and end are both empty
\* after escaping, and "start U+2014 end" otherwise, whatever the values.
C4_TimeRule ==
  Assembled =>
    LET shown == SegsAfter(DaysHtml, TimeOpen)
    IN  /\ Len(shown) = Len(ShownSlots)
        /\ \A k \in 1..Len(ShownSlots) :
             LET st == html_escape(Text(ClaimStart(ShownSlots[k])))
                 en == html_escape(Text(ClaimEnd(ShownSlots[k])))
             IN  shown[k] = IF st = <<>> /\ en = <<>> THEN <<EmDash>>
                            ELSE st \o <<" ", EmDash, " ">> \o en

\* C5: the output has one day section for each key of week that comes with
\* a non-empty slot list, and no other section.
C5_SectionCount ==
  Assembled =>
    Len(Positions(page, SectionOpen)) = Cardinality(ShownKeys)

\* C6: every text value put into the page went through the escaper exactly
\* once: the page has no raw special character, what is displayed for each
\* inserted value is the value's own text, and a missing or null value is
\* displayed as nothing.
C6_EscapedOnce ==
  Assembled =>
    /\ WellEscaped(page)
    /\ Unescape(name) = IF doc.name.t = "absent" THEN Schedule ELSE Text(doc.name)
    /\ Unescape(semester) = Text(doc.semester)
    /\ {Unescape(x) : x \in Range(SegsAfter(page, DayNameOpen))}
         = {capitalize(k) : k \in ShownKeys}
    /\ {Unescape(x) : x \in Range(SegsAfter(page, TitleOpen))}
         = {Text(l.lecture) : l \in Range(ShownLectures)}
    /\ {Unescape(x) : x \in Range(SegsAfter(page, PillOpen))}
         = {Text(a) : a \in Range(ShownAttendees)}
    /\ \A x \in Range(SegsAfter(page, TimeOpen)) :
         \/ x = <<EmDash>>
         \/ LET k == CHOOSE i \in 1..Len(x) : x[i] = EmDash
            IN  <<Unescape(SubSeq(x, 1, k - 2)), Unescape(SubSeq(x, k + 2, Len(x)))>>
                  \in {<<Text(ClaimStart(sl)), Text(ClaimEnd(sl))>> :
                         sl \in Range(ShownSlots)}

C6_Witness ==
  /\ pc = "exit"
  /\ exitCode = 0
  /\ outFile.data = page
  /\ \E a \in Range(ShownAttendees) : a = StrV(<<"a", "&", "b">>)
  /\ \E a \in Range(ShownAttendees) : a = None
  /\ <<"a", "&", "a", "m", "p", ";", "b">> \in Range(SegsAfter(page, PillOpen))

\* C7 as stated: the header of a shown day is its key with the first letter
\* uppercased and the other characters unchanged.
C7_RestUnchanged ==
  Assembled =>
    Range(SegsAfter(page, DayNameOpen))
      = {html_escape(<<upper(k[1])>> \o Tail(k)) : k \in ShownKeys}

\* C7 as amended: the header of a shown day is its key, escaped, with the
\* first letter uppercased and the other characters lowercased.
C7_RestLowercased ==
  Assembled =>
    Range(SegsAfter(page, DayNameOpen))
      = {html_escape(<<upper(k[1])>> \o [i \in 1..(Len(k) - 1) |-> lower(k[i + 1])]) :
           k \in ShownKeys}

C7_Witness ==
  /\ Assembled
  /\ labDay \in ShownKeys
  /\ <<"L", "a", "b", "d", "a", "y">> \in Range(SegsAfter(page, DayNameOpen))

\* C8: when the input file is missing, the only step is the fatal exit with
\* a message naming the path: nothing is loaded, written or printed.
C8_MissingInput ==
  [][inFile.st = "missing" =>
       /\ pc = "exists"
       /\ pc' = "exit"
       /\ exitCode' # 0
       /\ IN_FILE \in Range(stderr')
       /\ UNCHANGED <<doc, page, outFile, stdout>>]_vars

C8_Witness ==
  /\ inFile.st = "missing"
  /\ pc = "exit"
  /\ exitCode = 1
  /\ outFile = OldFile
  /\ stdout = <<>>

\* only optional fields are missing or null: every container is a list or
\* mapping, missing or null, and every slot and lecture is a mapping
OnlyOptionalMissing(d) ==
  /\ d.kind = "map"
  /\ d.week.t # "scalar"
  /\ \A i \in 1..Len(ItemsOf(d.week)) :
       LET slots == d.week.items[i].slots
       IN  /\ slots.t # "scalar"
           /\ \A j \in 1..Len(ItemsOf(slots)) :
                LET sl == slots.items[j]
                IN  /\ sl.t = "map"
                    /\ sl.time.t # "scalar"
                    /\ sl.lectures.t # "scalar"
                    /\ \A k \in 1..Len(ItemsOf(sl.lectures)) :
                         /\ sl.lectures.items[k].t = "map"
                         /\ sl.lectures.items[k].attendees.t # "scalar"

Rank(p) ==
  CASE p = "exists" -> 1
    [] p = "load" -> 2
    [] p = "assemble" -> 3
    [] p = "write" -> 4
    [] p = "print" -> 5
    [] p = "exit" -> 6

\* C10: the steps of main run in the order exists, load, assemble, write,
\* print, each after the earlier ones succeeded: the output file changes only
\* in the write step, which starts only with the loaded document assembled,
\* and the confirmation is printed only after the page was written.
C10_StepOrder ==
  [][/\ pc' # "exit" => Rank(pc') = Rank(pc) + 1
     /\ outFile' # outFile => pc = "write"
     /\ pc' = "write" => /\ pc = "assemble"
                         /\ doc = inFile.doc
                         /\ inFile.st \in {"empty", "ok"}
                         /\ page' # <<>>
     /\ stdout' # stdout => /\ pc = "print"
                            /\ outFile = [exists |-> TRUE, data |-> page]
     /\ (pc' = "exit" /\ exitCode' = 0) => stdout' # stdout]_vars

C10_Witness ==
  /\ pc = "exit"
  /\ stderr = <<"AttributeError or TypeError">>
  /\ inFile.st = "ok"
  /\ outFile = OldFile
  /\ stdout = <<>>

====
